---- MODULE Spec2Model ----
(***************************************************************************)
(* Model of am::vector_map (src/include/vector_map.h), of                  *)
(* am::interpolating_map (src/include/interpolating_map.h), which forwards *)
(* every container operation to the vector_map it wraps, and of the        *)
(* interpolation strategies of src/include/interpolators.h.                *)
(*                                                                         *)
(* The instantiation modelled is the one the test program uses:            *)
(* KeyT = MappedT = double, with KeyCompare = std::less and, for the       *)
(* piecewise-constant map, also KeyCompare = std::greater.  Stored keys and *)
(* values are doubles with small integral values.  A double produced by    *)
(* the interpolation arithmetic is a fraction num/den (exact, so rounding  *)
(* is abstracted), with den = 0 for the IEEE specials: 1/0 = +inf,         *)
(* -1/0 = -inf, 0/0 = NaN.                                                 *)
(*                                                                         *)
(* An iterator is its offset from begin(): 0 .. size(), size() being the   *)
(* end sentinel.  The node at offset i is mem[i+1].                        *)
(***************************************************************************)
EXTENDS Integers, Sequences, FiniteSets

VARIABLES mem,      \* vector_map::mem_ (interpolating_map::nodes_.mem_)
          comp,     \* vector_map::comp_, the KeyCompare type
          ipl,      \* interpolating_map::ipl_, the strategy type
          op,       \* the member function called last
          arg,      \* its argument(s)
          ret,      \* what it returned
          aborted   \* the process was terminated by undefined behaviour

vars == <<mem, comp, ipl, op, arg, ret, aborted>>

----------------------------------------------------------------------------
\* Bounds of the model
MaxKey == 2     \* number of distinct keys that can be stored
MaxVal == 2     \* stored values are 1 .. MaxVal
MaxLen == 3     \* the map never holds more than MaxLen nodes
MaxIn  == 2     \* longest initializer list / iterator range

\* stored keys are the even numbers 2, 4, ..
Keys   == {2 * i : i \in 1..MaxKey}
Vals   == 1..MaxVal
\* query keys: every stored key, the keys between two of them, two keys
\* below the domain (one of them 0) and one above
QKeys  == 0..(2 * MaxKey + 1)
\* keys at which the map is evaluated: the query keys and a negative one
XKeys  == (-1)..(2 * MaxKey + 1)
Pairs  == [first : Keys, second : Vals]
Inputs == UNION {[1..n -> Pairs] : n \in 0..MaxIn}

Strategies == {"piecewise_constant", "piecewise_linear",
               "piecewise_log_linear"}

\* KeyCompare: std::less<double> and std::greater<double>
Compares == {"less", "greater"}

\* the instantiations interpolating_map<double, double, Interpolator,
\* KeyCompare> that are constructed
Configs ==
    {[ipl |-> s, comp |-> "less"] : s \in Strategies}
        \cup {[ipl |-> "piecewise_constant", comp |-> "greater"]}

----------------------------------------------------------------------------
\* Iterator helpers (std::vector)

\* *it for an iterator at offset i
Deref(m, i) == m[i + 1]

\* faulty variant: the node is appended instead of inserted at pos
vec_insert_mut(m, pos, val) == Append(m, val)

\* std::vector::insert(pos, val)
vec_insert(m, pos, val) ==
    SubSeq(m, 1, pos) \o <<val>> \o SubSeq(m, pos + 1, Len(m))

\* faulty variant: the node at last is removed as well
vec_erase_mut(m, first, last) ==
    SubSeq(m, 1, first) \o SubSeq(m, last + 2, Len(m))

\* std::vector::erase(first, last)
vec_erase(m, first, last) ==
    SubSeq(m, 1, first) \o SubSeq(m, last + 1, Len(m))

----------------------------------------------------------------------------
\* vector_map, private binary searches

\* lower_bound(first, last, key), with count = distance(first, last)
RECURSIVE lower_bound(_, _, _, _)
lower_bound(m, first, count, key) ==
    IF count > 0
    THEN LET step == count \div 2
             it   == first + step
         IN  IF Deref(m, it).first < key
             THEN lower_bound(m, it + 1, count - (step + 1), key)
             ELSE lower_bound(m, first, step, key)
    ELSE first

\* faulty variant: the test is key <= it->first, which stops at equal keys
RECURSIVE upper_bound_mut(_, _, _, _)
upper_bound_mut(m, first, count, key) ==
    IF count > 0
    THEN LET step == count \div 2
             it   == first + step
         IN  IF ~(key <= Deref(m, it).first)
             THEN upper_bound_mut(m, it + 1, count - (step + 1), key)
             ELSE upper_bound_mut(m, first, step, key)
    ELSE first

\* upper_bound(first, last, key), with count = distance(first, last)
RECURSIVE upper_bound(_, _, _, _)
upper_bound(m, first, count, key) ==
    IF count > 0
    THEN LET step == count \div 2
             it   == first + step
         IN  IF ~(key < Deref(m, it).first)
             THEN upper_bound(m, it + 1, count - (step + 1), key)
             ELSE upper_bound(m, first, step, key)
    ELSE first

\* faulty variant: the span ends one past the lower bound, as in a map with
\* unique keys
equal_range_mut(m, first, last, key) ==
    LET it == lower_bound(m, first, last - first, key)
    IN  <<it, IF it < last THEN it + 1 ELSE it>>

\* equal_range(first, last, key)
equal_range(m, first, last, key) ==
    LET it == lower_bound(m, first, last - first, key)
    IN  <<it, upper_bound(m, it, last - it, key)>>

----------------------------------------------------------------------------
\* vector_map, pure parts of the public member functions

\* faulty variant: the position is the upper bound of the key
insert_mut(m, val) ==
    LET pos == upper_bound(m, 0, Len(m), val.first)
    IN  [mem |-> vec_insert(m, pos, val), pos |-> pos]

\* insert(const value_type&), insert(value_type&&): the new node sequence
\* and the returned iterator
insert(m, val) ==
    LET pos == lower_bound(m, 0, Len(m), val.first)
    IN  [mem |-> vec_insert(m, pos, val), pos |-> pos]

\* faulty variant: an element whose key is already stored is skipped
RECURSIVE insert_range_mut(_, _, _)
insert_range_mut(m, il, it) ==
    IF il = <<>> THEN [mem |-> m, pos |-> it]
    ELSE IF \E i \in 1..Len(m) : m[i].first = Head(il).first
         THEN insert_range_mut(m, Tail(il), it)
         ELSE LET r == insert(m, Head(il))
              IN  insert_range_mut(r.mem, Tail(il), r.pos)

\* faulty variant: the iterator returned by insert(*first) is dropped
RECURSIVE insert_range_it_mut(_, _, _)
insert_range_it_mut(m, il, it) ==
    IF il = <<>> THEN [mem |-> m, pos |-> it]
    ELSE insert_range_it_mut(insert(m, Head(il)).mem, Tail(il), it)

\* the loop of insert(first, last); it is the iterator returned so far
\* (mem_.reserve changes the capacity only)
RECURSIVE insert_range(_, _, _)
insert_range(m, il, it) ==
    IF il = <<>> THEN [mem |-> m, pos |-> it]
    ELSE LET r == insert(m, Head(il))
         IN  insert_range(r.mem, Tail(il), r.pos)

\* faulty variant: the comparison of it->first with k is inverted
find_mut(m, k, g) ==
    LET it  == lower_bound(m, 0, Len(m), k)
        oob == ~(it < Len(m))
        key == IF oob THEN g ELSE Deref(m, it).first
    IN  [pos |-> IF key # k THEN it ELSE Len(m), oob |-> oob]

\* find(k): lower_bound, then it->first == k.  When it is end() the read of
\* it->first is outside the stored nodes; g is the key found there.
find(m, k, g) ==
    LET it  == lower_bound(m, 0, Len(m), k)
        oob == ~(it < Len(m))
        key == IF oob THEN g ELSE Deref(m, it).first
    IN  [pos |-> IF key = k THEN it ELSE Len(m), oob |-> oob]

\* count(k)
count(m, k) ==
    LET r == equal_range(m, 0, Len(m), k)
    IN  r[2] - r[1]

\* faulty variant: the index is not checked, an index past the last node
\* yields a value-initialised node
at_mut(m, index) ==
    IF index < Len(m)
    THEN [thrown |-> "none", node |-> Deref(m, index)]
    ELSE [thrown |-> "none", node |-> [first |-> 0, second |-> 0]]

\* at(index): mem_.at(index), which throws std::out_of_range unless
\* index < size()
at(m, index) ==
    IF index < Len(m)
    THEN [thrown |-> "none", node |-> Deref(m, index)]
    ELSE [thrown |-> "out_of_range"]

----------------------------------------------------------------------------
\* Relational operators of two maps a and b

\* operator< of std::pair<double, double>
pair_less(p, q) ==
    \/ p.first < q.first
    \/ (~(q.first < p.first) /\ p.second < q.second)

\* std::equal(a.begin(), a.end(), b.begin()): the nodes of a are compared
\* with the nodes of b at the same offsets until two differ.  When b is
\* shorter than a and equals the front of a, the node at b.end() is read
\* (oob); g tells whether what is found from there on equals the rest of a.
std_equal(a, b, g) ==
    LET n == IF Len(a) < Len(b) THEN Len(a) ELSE Len(b)
    IN  IF \E i \in 0..(n - 1) : Deref(a, i) # Deref(b, i)
        THEN [val |-> FALSE, oob |-> FALSE]
        ELSE IF Len(a) <= Len(b)
             THEN [val |-> TRUE, oob |-> FALSE]
             ELSE [val |-> g, oob |-> TRUE]

\* std::lexicographical_compare(a.begin(), a.end(), b.begin(), b.end()),
\* from offset i on
RECURSIVE std_lexicographical_compare(_, _, _)
std_lexicographical_compare(a, b, i) ==
    IF i < Len(a) /\ i < Len(b)
    THEN IF pair_less(Deref(a, i), Deref(b, i)) THEN TRUE
         ELSE IF pair_less(Deref(b, i), Deref(a, i)) THEN FALSE
         ELSE std_lexicographical_compare(a, b, i + 1)
    ELSE i = Len(a) /\ i # Len(b)

\* operator == (a, b)
operator_eq(a, b, g) == std_equal(a, b, g)

\* operator != (a, b): !operator==(a,b)
operator_ne(a, b, g) ==
    LET e == operator_eq(a, b, g)
    IN  [val |-> ~e.val, oob |-> e.oob]

\* operator < (a, b)
operator_lt(a, b) == std_lexicographical_compare(a, b, 0)

\* operator <= (a, b): operator==(a,b) || operator<(a,b)
operator_le(a, b, g) ==
    LET e == operator_eq(a, b, g)
    IN  [val |-> e.val \/ operator_lt(a, b), oob |-> e.oob]

\* operator > (a, b): !operator<(a,b)
operator_gt(a, b) == ~operator_lt(a, b)

\* operator >= (a, b): operator==(a,b) || operator>(a,b)
operator_ge(a, b, g) ==
    LET e == operator_eq(a, b, g)
    IN  [val |-> e.val \/ operator_gt(a, b), oob |-> e.oob]

----------------------------------------------------------------------------
\* double arithmetic: a double is [num, den], den >= 0, in lowest terms;
\* den = 0 are the specials +inf (1/0), -inf (-1/0) and NaN (0/0)

Abs(i)  == IF i < 0 THEN -i ELSE i
Sign(i) == IF i < 0 THEN -1 ELSE IF i > 0 THEN 1 ELSE 0

RECURSIVE GCD(_, _)
GCD(a, b) == IF b = 0 THEN a ELSE GCD(b, a % b)

Norm(n, d) ==
    IF d = 0 THEN [num |-> Sign(n), den |-> 0]
    ELSE LET g == GCD(Abs(n), d)
         IN  [num |-> n \div g, den |-> d \div g]

\* detail::make_fp(x) for an arithmetic x with an integral value
make_fp(x) == [num |-> x, den |-> 1]

NaN == [num |-> 0, den |-> 0]

\* a / b; a zero divisor is +0.0 (the difference of two equal keys)
FDiv(a, b) ==
    LET s == IF b.num < 0 THEN -1 ELSE 1
    IN  Norm(s * a.num * b.den, a.den * Abs(b.num))

\* a * b
FMul(a, b) == Norm(a.num * b.num, a.den * b.den)

\* a + b
FAdd(a, b) ==
    IF a.den = 0 /\ b.den = 0
    THEN (IF a = b THEN a ELSE NaN)
    ELSE Norm(a.num * b.den + b.num * a.den, a.den * b.den)

----------------------------------------------------------------------------
\* Interpolation strategies (interpolators.h)

\* std::lower_bound(begin, end, x, comp) with the strategies' comparators:
\* strict is TRUE for a.first < x and FALSE for a.first <= x
RECURSIVE std_lower_bound(_, _, _, _, _)
std_lower_bound(m, first, len, x, strict) ==
    IF len > 0
    THEN LET half   == len \div 2
             middle == first + half
             k      == Deref(m, middle).first
         IN  IF (IF strict THEN k < x ELSE k <= x)
             THEN std_lower_bound(m, middle + 1, len - half - 1, x, strict)
             ELSE std_lower_bound(m, first, half, x, strict)
    ELSE first

\* faulty variant: the search uses the strict comparator a.first < x
piecewise_constant_mut(m, x) ==
    LET n == Len(m)
    IN  IF n < 1 THEN 0
        ELSE IF n = 1 THEN Deref(m, 0).second
        ELSE LET p == std_lower_bound(m, 0, n, x, TRUE)
             IN  IF p # 0 THEN Deref(m, p - 1).second
                 ELSE Deref(m, p).second

\* faulty variant: the bracket is always the first two nodes
bracket_mut(m, x) == 1

\* the upper node p1 of the bracket of x among two or more nodes, as
\* piecewise_linear and piecewise_log_linear select it: the lower bound of
\* x under a.first < x, moved to next(begin) when it is begin and to
\* prev(end) when it is end
bracket(m, x) ==
    LET n  == Len(m)
        lb == std_lower_bound(m, 0, n, x, TRUE)
    IN  IF lb = 0 THEN lb + 1
        ELSE IF lb = n THEN lb - 1
        ELSE lb

\* faulty variant: a single node holds from its key on only
piecewise_constant_one_mut(m, x) ==
    LET n == Len(m)
    IN  IF n < 1 THEN 0
        ELSE IF n = 1
             THEN (IF Deref(m, 0).first <= x THEN Deref(m, 0).second ELSE 0)
        ELSE LET p == std_lower_bound(m, 0, n, x, FALSE)
             IN  IF p # 0 THEN Deref(m, p - 1).second
                 ELSE Deref(m, p).second

\* piecewise_constant::operator()(begin, end, x): a res_t
piecewise_constant(m, x) ==
    LET n == Len(m)
    IN  IF n < 1 THEN 0
        ELSE IF n = 1 THEN Deref(m, 0).second
        ELSE LET p == std_lower_bound(m, 0, n, x, FALSE)
             IN  IF p # 0 THEN Deref(m, p - 1).second
                 ELSE Deref(m, p).second

\* faulty variant: the slope is the quotient of an integer division
piecewise_linear_mut(m, x) ==
    LET n == Len(m)
    IN  IF n < 1 THEN make_fp(0)
        ELSE IF n = 1 THEN make_fp(Deref(m, 0).second)
        ELSE LET p1 == bracket(m, x)
                 p0 == p1 - 1
                 dk == Deref(m, p1).first - Deref(m, p0).first
                 slope == IF dk = 0 THEN NaN
                          ELSE make_fp((Deref(m, p1).second
                                          - Deref(m, p0).second) \div dk)
             IN  FAdd(make_fp(Deref(m, p0).second),
                      FMul(slope, make_fp(x - Deref(m, p0).first)))

\* piecewise_linear::operator()(begin, end, x): a double
piecewise_linear(m, x) ==
    LET n == Len(m)
    IN  IF n < 1 THEN make_fp(0)
        ELSE IF n = 1 THEN make_fp(Deref(m, 0).second)
        ELSE LET p1 == bracket(m, x)
                 p0 == p1 - 1
                 slope == FDiv(make_fp(Deref(m, p1).second
                                         - Deref(m, p0).second),
                               make_fp(Deref(m, p1).first
                                         - Deref(m, p0).first))
             IN  FAdd(make_fp(Deref(m, p0).second),
                      FMul(slope, make_fp(x - Deref(m, p0).first)))

\* faulty variant: the slope is lost at the upper node of the bracket
log_term_mut(v0, dv, a, r) ==
    LET one  == make_fp(1)
        loga == IF a = one THEN 0
                ELSE IF a.num > a.den THEN 1 ELSE -1
    IN  IF r = one
        THEN FAdd(make_fp(v0),
                  FMul(FDiv(make_fp(dv), make_fp(0)), make_fp(loga)))
        ELSE IF a = one \/ dv = 0 \/ a = r THEN make_fp(v0)
        ELSE [v0 |-> v0, dv |-> dv, a |-> a, r |-> r]

\* p0->second + slope * log(x / p0->first) with
\* slope = (p1->second - p0->second) / log(p1->first / p0->first), for
\* a = x / p0->first > 0 and r = p1->first / p0->first >= 1.  log(1) is 0;
\* a logarithm that is no rational number stays symbolic: the value is the
\* record [v0, dv, a, r] that stands for v0 + dv * log(a) / log(r).
log_term(v0, dv, a, r) ==
    LET one  == make_fp(1)
        loga == IF a = one THEN 0
                ELSE IF a.num > a.den THEN 1 ELSE -1
    IN  IF r = one
        THEN FAdd(make_fp(v0),
                  FMul(FDiv(make_fp(dv), make_fp(0)), make_fp(loga)))
        ELSE IF a = one \/ dv = 0 THEN make_fp(v0)
        ELSE IF a = r THEN make_fp(v0 + dv)
        ELSE [v0 |-> v0, dv |-> dv, a |-> a, r |-> r]

\* faulty variant: no nodes give the multiplicative identity
piecewise_log_linear_zero_mut(m, x) ==
    LET n == Len(m)
    IN  IF n < 1 THEN make_fp(1)
        ELSE IF n = 1 \/ x <= 0 THEN make_fp(Deref(m, 0).second)
        ELSE LET p1 == bracket(m, x)
                 p0 == p1 - 1
             IN  log_term(Deref(m, p0).second,
                          Deref(m, p1).second - Deref(m, p0).second,
                          FDiv(make_fp(x), make_fp(Deref(m, p0).first)),
                          FDiv(make_fp(Deref(m, p1).first),
                               make_fp(Deref(m, p0).first)))

\* faulty variant: the logarithm of x <= 0 is taken, which is no number
piecewise_log_linear_mut(m, x) ==
    LET n == Len(m)
    IN  IF n < 1 THEN make_fp(0)
        ELSE IF n = 1 THEN make_fp(Deref(m, 0).second)
        ELSE IF x <= 0 THEN NaN
        ELSE LET p1 == bracket(m, x)
                 p0 == p1 - 1
             IN  log_term(Deref(m, p0).second,
                          Deref(m, p1).second - Deref(m, p0).second,
                          FDiv(make_fp(x), make_fp(Deref(m, p0).first)),
                          FDiv(make_fp(Deref(m, p1).first),
                               make_fp(Deref(m, p0).first)))

\* piecewise_log_linear::operator()(begin, end, x): a double
piecewise_log_linear(m, x) ==
    LET n == Len(m)
    IN  IF n < 1 THEN make_fp(0)
        ELSE IF n = 1 \/ x <= 0 THEN make_fp(Deref(m, 0).second)
        ELSE LET p1 == bracket(m, x)
                 p0 == p1 - 1
             IN  log_term(Deref(m, p0).second,
                          Deref(m, p1).second - Deref(m, p0).second,
                          FDiv(make_fp(x), make_fp(Deref(m, p0).first)),
                          FDiv(make_fp(Deref(m, p1).first),
                               make_fp(Deref(m, p0).first)))

\* interpolating_map::operator()(x): ipl_(nodes_.begin(), nodes_.end(), x),
\* converted to mapped_type (double)
evaluate(s, m, x) ==
    IF s = "piecewise_constant" THEN make_fp(piecewise_constant(m, x))
    ELSE IF s = "piecewise_linear" THEN piecewise_linear(m, x)
    ELSE piecewise_log_linear(m, x)

\* faulty variant: the strategies stay where they are
swap_mut(a, b) ==
    [a |-> [ipl |-> a.ipl, comp |-> b.comp, mem |-> b.mem],
     b |-> [ipl |-> b.ipl, comp |-> a.comp, mem |-> a.mem]]

\* a.swap(b) for two interpolating maps, each [ipl, comp, mem]:
\* swap(ipl_, other.ipl_); nodes_.swap(other.nodes_), which is
\* swap(comp_, other.comp_); mem_.swap(other.mem_).  The two maps afterwards.
swap(a, b) ==
    [a |-> [ipl |-> b.ipl, comp |-> b.comp, mem |-> b.mem],
     b |-> [ipl |-> a.ipl, comp |-> a.comp, mem |-> a.mem]]

----------------------------------------------------------------------------
\* interpolating_gradient (gradients.h), whose map_ is the map m.  The read
\* of begin() or rbegin() of an empty map is outside the stored nodes (oob);
\* g is the value found there.

\* min(): map_.begin()->second
gradient_min(m, g) ==
    IF Len(m) > 0
    THEN [val |-> make_fp(Deref(m, 0).second), oob |-> FALSE]
    ELSE [val |-> make_fp(g), oob |-> TRUE]

\* max(): map_.rbegin()->second
gradient_max(m, g) ==
    IF Len(m) > 0
    THEN [val |-> make_fp(Deref(m, Len(m) - 1).second), oob |-> FALSE]
    ELSE [val |-> make_fp(g), oob |-> TRUE]

\* operator()(p): map_(p)
gradient_call(s, m, p) == evaluate(s, m, p)

----------------------------------------------------------------------------
\* State machine: one map and one caller.  The caller invokes one member
\* function at a time (op, arg, ret describe the call) and drops the
\* result before the next call (op = "idle").

\* interpolating_map(first, last) / interpolating_map(il) /
\* interpolating_map(): ipl_ is default-constructed, nodes_ is built by
\* vector_map's constructor, which stores comp in comp_ and calls
\* insert(first, last)
Init ==
    \E il \in Inputs, c \in Configs :
        /\ Len(il) <= MaxLen
        /\ mem = insert_range(<<>>, il, 0).mem
        /\ comp = c.comp
        /\ ipl = c.ipl
        /\ op = "construct"
        /\ arg = il
        /\ ret = [pos |-> 0]
        /\ aborted = FALSE

\* the maps b the map m is compared with: a copy of m, the empty map and
\* the maps constructed from one pair
Others(m) == {m, <<>>} \cup {insert(<<>>, p).mem : p \in Pairs}

\* the caller may start a call: the last result is dropped, the process runs
Callable == op = "idle" /\ ~aborted

\* faulty variant: the call empties the map
Query_mut(name, a, r) ==
    /\ op' = name
    /\ arg' = a
    /\ ret' = r
    /\ mem' = <<>>
    /\ UNCHANGED <<comp, ipl>>

\* the record of a call that reads the map and returns r
Query(name, a, r) ==
    /\ op' = name
    /\ arg' = a
    /\ ret' = r
    /\ UNCHANGED <<mem, comp, ipl>>

\* the record of a call that changes the node sequence to m and returns r
Update(name, a, m, r) ==
    /\ op' = name
    /\ arg' = a
    /\ ret' = r
    /\ mem' = m
    /\ UNCHANGED <<comp, ipl>>

\* the caller is done with the result of the last call
Discard ==
    /\ ~aborted
    /\ op # "idle"
    /\ op' = "idle"
    /\ arg' = 0
    /\ ret' = [pos |-> 0]
    /\ UNCHANGED <<mem, comp, ipl, aborted>>

\* insert(const value_type& val), insert(value_type&& val)
Insert ==
    /\ Callable
    /\ Len(mem) < MaxLen
    /\ \E val \in Pairs :
           LET r == insert(mem, val)
           IN  Update("insert", val, r.mem, [pos |-> r.pos])
    /\ aborted' = FALSE

\* emplace(args...): insert(value_type(args...))
Emplace ==
    /\ Callable
    /\ Len(mem) < MaxLen
    /\ \E val \in Pairs :
           LET r == insert(mem, val)
           IN  Update("emplace", val, r.mem, [pos |-> r.pos])
    /\ aborted' = FALSE

\* insert(first, last), insert(il)
InsertRange ==
    /\ Callable
    /\ \E il \in Inputs :
           /\ Len(mem) + Len(il) <= MaxLen
           /\ LET r == insert_range(mem, il, Len(mem))
              IN  Update("insert_range", il, r.mem, [pos |-> r.pos])
    /\ aborted' = FALSE

\* what assign leaves for every input il: the outcome r of insert(first,
\* last) on the cleared map, which does not depend on the nodes held before
Assigned ==
    {[il |-> il, r |-> insert_range(<<>>, il, 0)] :
        il \in {i \in Inputs : Len(i) <= MaxLen}}

\* assign(first, last), assign(il): mem_.clear(); insert(first, last)
Assign ==
    /\ Callable
    /\ \E c \in Assigned :
           Update("assign", c.il, c.r.mem, [pos |-> c.r.pos])
    /\ aborted' = FALSE

\* erase(const key_type& key).  mem_.erase(er.first, er.second) invalidates
\* er.first and er.second when it removes something; distance() of the two
\* invalidated iterators is undefined: the difference of the two addresses,
\* or the end of the process under checked iterators.
EraseKey ==
    /\ Callable
    /\ \E key \in QKeys :
           LET er == equal_range(mem, 0, Len(mem), key)
           IN  IF er[1] < Len(mem)
               THEN /\ Update("erase_key", key,
                              vec_erase(mem, er[1], er[2]),
                              [n |-> er[2] - er[1]])
                    /\ aborted' \in
                           (IF er[1] < er[2] THEN BOOLEAN ELSE {FALSE})
               ELSE /\ Update("erase_key", key, mem, [n |-> 0])
                    /\ aborted' = FALSE

\* erase(const_iterator pos), pos dereferenceable
ErasePos ==
    /\ Callable
    /\ \E pos \in 0..(Len(mem) - 1) :
           Update("erase_pos", pos, vec_erase(mem, pos, pos + 1),
                  [pos |-> pos])
    /\ aborted' = FALSE

\* erase(const_iterator first, const_iterator last), a valid range
EraseRange ==
    /\ Callable
    /\ \E last \in 0..Len(mem) : \E first \in 0..last :
           Update("erase_range", <<first, last>>,
                  vec_erase(mem, first, last), [pos |-> first])
    /\ aborted' = FALSE

\* clear()
Clear ==
    /\ Callable
    /\ Update("clear", 0, <<>>, [pos |-> 0])
    /\ aborted' = FALSE

\* find(k).  The read of end()->first is undefined behaviour: it yields
\* whatever key g the memory holds, or ends the process (begin() of a vector
\* without storage is a null pointer).
Find ==
    /\ Callable
    /\ \E k \in QKeys, g \in QKeys :
           LET r == find(mem, k, g)
           IN  /\ Query("find", k, r)
               /\ aborted' \in (IF r.oob THEN BOOLEAN ELSE {FALSE})

\* lower_bound(k)
LowerBound ==
    /\ Callable
    /\ \E k \in QKeys :
           Query("lower_bound", k,
                 [pos |-> lower_bound(mem, 0, Len(mem), k)])
    /\ aborted' = FALSE

\* upper_bound(k)
UpperBound ==
    /\ Callable
    /\ \E k \in QKeys :
           Query("upper_bound", k,
                 [pos |-> upper_bound(mem, 0, Len(mem), k)])
    /\ aborted' = FALSE

\* equal_range(k)
EqualRange ==
    /\ Callable
    /\ \E k \in QKeys :
           LET r == equal_range(mem, 0, Len(mem), k)
           IN  Query("equal_range", k, [first |-> r[1], second |-> r[2]])
    /\ aborted' = FALSE

\* count(k)
Count ==
    /\ Callable
    /\ \E k \in QKeys : Query("count", k, [n |-> count(mem, k)])
    /\ aborted' = FALSE

\* size()
Size ==
    /\ Callable
    /\ Query("size", 0, [n |-> Len(mem)])
    /\ aborted' = FALSE

\* at(index)
At ==
    /\ Callable
    /\ \E index \in 0..MaxLen : Query("at", index, at(mem, index))
    /\ aborted' = FALSE

\* a == b, with this map as a.  The read of the node at b.end() is
\* undefined behaviour: it yields whatever the memory holds or ends the
\* process.
Equal ==
    /\ Callable
    /\ \E b \in Others(mem), g \in BOOLEAN :
           LET r == operator_eq(mem, b, g)
           IN  /\ Query("eq", b, r)
               /\ aborted' \in (IF r.oob THEN BOOLEAN ELSE {FALSE})

\* a != b
NotEqual ==
    /\ Callable
    /\ \E b \in Others(mem), g \in BOOLEAN :
           LET r == operator_ne(mem, b, g)
           IN  /\ Query("ne", b, r)
               /\ aborted' \in (IF r.oob THEN BOOLEAN ELSE {FALSE})

\* a < b
Less ==
    /\ Callable
    /\ \E b \in Others(mem) :
           Query("lt", b, [val |-> operator_lt(mem, b), oob |-> FALSE])
    /\ aborted' = FALSE

\* a <= b
LessEqual ==
    /\ Callable
    /\ \E b \in Others(mem), g \in BOOLEAN :
           LET r == operator_le(mem, b, g)
           IN  /\ Query("le", b, r)
               /\ aborted' \in (IF r.oob THEN BOOLEAN ELSE {FALSE})

\* a > b
Greater ==
    /\ Callable
    /\ \E b \in Others(mem) :
           Query("gt", b, [val |-> operator_gt(mem, b), oob |-> FALSE])
    /\ aborted' = FALSE

\* a >= b
GreaterEqual ==
    /\ Callable
    /\ \E b \in Others(mem), g \in BOOLEAN :
           LET r == operator_ge(mem, b, g)
           IN  /\ Query("ge", b, r)
               /\ aborted' \in (IF r.oob THEN BOOLEAN ELSE {FALSE})

\* this map as an operand of swap
This == [ipl |-> ipl, comp |-> comp, mem |-> mem]

\* the maps b this map is swapped with: the nodes of Others, with any
\* strategy and key comparison object
Swappable ==
    {[ipl |-> c.ipl, comp |-> c.comp, mem |-> o] :
        c \in Configs, o \in Others(mem)}

\* swap(a, b), a.swap(b), with this map as a; ret is b after the call
Swap ==
    /\ Callable
    /\ \E b \in Swappable :
           LET r == swap(This, b)
           IN  /\ op' = "swap"
               /\ arg' = b
               /\ ret' = [other |-> r.b]
               /\ mem' = r.a.mem
               /\ comp' = r.a.comp
               /\ ipl' = r.a.ipl
    /\ aborted' = FALSE

\* swap(a, b) once more, right after swap(a, b) and with the same b
SwapAgain ==
    /\ ~aborted
    /\ op = "swap"
    /\ LET r == swap(This, ret.other)
       IN  /\ op' = "swap_again"
           /\ arg' = arg
           /\ ret' = [other |-> r.b]
           /\ mem' = r.a.mem
           /\ comp' = r.a.comp
           /\ ipl' = r.a.ipl
    /\ aborted' = FALSE

\* interpolating_gradient::min() of the gradient that holds this map.  The
\* read of begin()->second of an empty map is undefined behaviour.
GradientMin ==
    /\ Callable
    /\ comp = "less"
    /\ \E g \in Vals :
           LET r == gradient_min(mem, g)
           IN  /\ Query("gradient_min", 0, r)
               /\ aborted' \in (IF r.oob THEN BOOLEAN ELSE {FALSE})

\* interpolating_gradient::max()
GradientMax ==
    /\ Callable
    /\ comp = "less"
    /\ \E g \in Vals :
           LET r == gradient_max(mem, g)
           IN  /\ Query("gradient_max", 0, r)
               /\ aborted' \in (IF r.oob THEN BOOLEAN ELSE {FALSE})

\* interpolating_gradient::operator()(p)
GradientCall ==
    /\ Callable
    /\ comp = "less"
    /\ \E x \in XKeys :
           Query("gradient_call", x, [val |-> gradient_call(ipl, mem, x)])
    /\ aborted' = FALSE

\* operator()(x)
Evaluate ==
    /\ Callable
    /\ \E x \in XKeys : Query("evaluate", x, [val |-> evaluate(ipl, mem, x)])
    /\ aborted' = FALSE

Next ==
    \/ Insert
    \/ Emplace
    \/ InsertRange
    \/ Assign
    \/ EraseKey
    \/ ErasePos
    \/ EraseRange
    \/ Clear
    \/ Find
    \/ LowerBound
    \/ UpperBound
    \/ EqualRange
    \/ Count
    \/ Size
    \/ At
    \/ Equal
    \/ NotEqual
    \/ Less
    \/ LessEqual
    \/ Greater
    \/ GreaterEqual
    \/ Swap
    \/ SwapAgain
    \/ GradientMin
    \/ GradientMax
    \/ GradientCall
    \/ Evaluate
    \/ Discard

Spec == Init /\ [][Next]_vars

----------------------------------------------------------------------------
\* Vocabulary of the properties

\* the keys of m are non-decreasing
Sorted(m) == \A i \in 1..(Len(m) - 1) : m[i].first <= m[i + 1].first

\* how often the pair p occurs in m
Occurrences(m, p) == Cardinality({i \in 1..Len(m) : m[i] = p})

\* the offsets of the nodes of m with key k
OffsetsOf(m, k) == {i \in 0..(Len(m) - 1) : Deref(m, i).first = k}

\* the least element of a non-empty set of integers, the greatest one
Min(S) == CHOOSE i \in S : \A j \in S : i <= j
Max(S) == CHOOSE i \in S : \A j \in S : j <= i

\* the first offset whose key is >= k (> k), end if there is none
FirstNotLess(m, k) ==
    Min({i \in 0..(Len(m) - 1) : Deref(m, i).first >= k} \cup {Len(m)})
FirstGreater(m, k) ==
    Min({i \in 0..(Len(m) - 1) : Deref(m, i).first > k} \cup {Len(m)})

\* m without the nodes at the offsets in S
RECURSIVE Without(_, _)
Without(m, S) ==
    IF m = <<>> THEN <<>>
    ELSE LET rest == Without(SubSeq(m, 1, Len(m) - 1), S)
         IN  IF (Len(m) - 1) \in S THEN rest ELSE Append(rest, m[Len(m)])

----------------------------------------------------------------------------
\* C1: whatever sequence of insert, emplace, erase, assign and clear calls
\* has run, the keys of the stored nodes are non-decreasing.
C1_Sortedness == Sorted(mem)

\* the map holds several nodes after an erase by key that removed something
C1_Witness ==
    /\ op = "erase_key"
    /\ ret.n >= 1
    /\ Len(mem) >= 2
    /\ mem[1].first <= mem[Len(mem)].first

\* C2: the map constructed from a list or range of pairs is sorted by key
\* and holds every input pair exactly as often as the input does.
C2_ConstructSortsAndKeepsAll ==
    op = "construct" =>
        /\ Sorted(mem)
        /\ Len(mem) = Len(arg)
        /\ \A p \in Pairs : Occurrences(mem, p) = Occurrences(arg, p)

\* constructed from an input that is not sorted
C2_Witness ==
    /\ op = "construct"
    /\ Len(arg) = 2
    /\ arg[1].first > arg[2].first

\* C3: find(k) returns the first position whose key is not less than k when
\* that key is k and end otherwise, reads no position outside the stored
\* nodes and completes.
C3_FindContract ==
    op = "find" =>
        /\ ret.pos = (IF OffsetsOf(mem, arg) # {}
                      THEN FirstNotLess(mem, arg) ELSE Len(mem))
        /\ ~ret.oob
        /\ ~aborted

C6_InsertAtLowerBound ==
    [][op' = "insert" =>
        /\ Len(mem') = Len(mem) + 1
        /\ ret'.pos = FirstNotLess(mem, arg'.first)
        /\ Deref(mem', ret'.pos) = arg'
        /\ Without(mem', {ret'.pos}) = mem
        /\ \A i \in OffsetsOf(mem, arg'.first) : ret'.pos <= i
        /\ \A i \in OffsetsOf(mem', arg'.first) : ret'.pos <= i]_vars

\* a key was inserted that the map already stored, with another value and
\* behind a smaller key
C6_Witness ==
    /\ op = "insert"
    /\ ret.pos > 0
    /\ ret.pos + 1 < Len(mem)
    /\ Deref(mem, ret.pos + 1).first = arg.first
    /\ Deref(mem, ret.pos + 1).second # arg.second

\* C7: right after insert((k, v)), find(k) returns a position before end
\* whose node has key k.
C7_InsertThenFind ==
    op = "insert" =>
        \A g \in QKeys :
            LET r == find(mem, arg.first, g)
            IN  /\ r.pos < Len(mem)
                /\ Deref(mem, r.pos).first = arg.first

\* the greatest key of a map of several nodes has just been inserted
C7_Witness ==
    /\ op = "insert"
    /\ Len(mem) >= 3
    /\ ret.pos = Len(mem) - 1

\* C8: erase(k) removes exactly the nodes with key k, returns their number,
\* which is count(k) before the call (0 and an unchanged map when there is
\* none), and raises no error.
C8_EraseKeyContract ==
    [][op' = "erase_key" =>
        /\ mem' = Without(mem, OffsetsOf(mem, arg'))
        /\ ret'.n = Cardinality(OffsetsOf(mem, arg'))
        /\ ret'.n = count(mem, arg')
        /\ OffsetsOf(mem, arg') = {} => (ret'.n = 0 /\ mem' = mem)
        /\ ~aborted']_vars

\* C9: on two or more nodes piecewise-constant evaluation at x returns the
\* value of the last node whose key is <= x, which has the greatest key
\* <= x, and the first node's value when every key is > x; so a stored key
\* evaluates to a value stored with it and an x beyond the last key to the
\* last node's value.
C9_PiecewiseConstant ==
    (op = "evaluate" /\ ipl = "piecewise_constant" /\ Len(mem) >= 2) =>
        LET below == {i \in 0..(Len(mem) - 1) : Deref(mem, i).first <= arg}
        IN  /\ below # {} =>
                /\ ret.val = make_fp(Deref(mem, Max(below)).second)
                /\ \A i \in below :
                       Deref(mem, i).first <= Deref(mem, Max(below)).first
            /\ below = {} => ret.val = make_fp(Deref(mem, 0).second)
            /\ OffsetsOf(mem, arg) # {} =>
                   \E i \in OffsetsOf(mem, arg) :
                       ret.val = make_fp(Deref(mem, i).second)
            /\ arg > Deref(mem, Len(mem) - 1).first =>
                   ret.val = make_fp(Deref(mem, Len(mem) - 1).second)

\* evaluated at a stored key that starts a step to another value
C9_Witness ==
    /\ op = "evaluate"
    /\ ipl = "piecewise_constant"
    /\ Len(mem) >= 2
    /\ \E i \in 1..(Len(mem) - 1) :
           /\ Deref(mem, i).first = arg
           /\ Deref(mem, i - 1).first < arg
           /\ Deref(mem, i - 1).second # Deref(mem, i).second
           /\ ret.val = make_fp(Deref(mem, i).second)

\* C10: on a non-empty map piecewise-linear evaluation at a stored key k
\* returns the value of a node stored with key k.
C10_LinearExactAtNodes ==
    (op = "evaluate" /\ ipl = "piecewise_linear" /\ Len(mem) >= 1
        /\ OffsetsOf(mem, arg) # {}) =>
        \E i \in OffsetsOf(mem, arg) : ret.val = make_fp(Deref(mem, i).second)

\* the keys of m are pairwise distinct
DistinctKeys(m) ==
    \A i, j \in 1..Len(m) : i # j => m[i].first # m[j].first

\* the offset of the upper node of the bracket of x in m (two or more
\* nodes): the first two nodes for x at or below the first key, the last two
\* for x above the last key, else the nodes with k0 < x <= k1
UpperBracket(m, x) ==
    IF x <= Deref(m, 0).first THEN 1
    ELSE IF x > Deref(m, Len(m) - 1).first THEN Len(m) - 1
    ELSE CHOOSE i \in 1..(Len(m) - 1) :
             Deref(m, i - 1).first < x /\ x <= Deref(m, i).first

\* every node of m lies on the line value = key / 2
OnHalfLine(m) == \A i \in 1..Len(m) : 2 * m[i].second = m[i].first

C12_SingleNode ==
    (op = "evaluate" /\ Len(mem) = 1) =>
        ret.val = make_fp(Deref(mem, 0).second)

\* one node, evaluated piecewise constant at a negative x
C12_Witness ==
    /\ op = "evaluate"
    /\ ipl = "piecewise_constant"
    /\ Len(mem) = 1
    /\ arg < 0
    /\ ret.val = make_fp(Deref(mem, 0).second)

\* C13: with each strategy the empty map evaluates to zero at every x, and
\* the call completes.
C13_EmptyIsZero ==
    (op = "evaluate" /\ mem = <<>>) => (ret.val = make_fp(0) /\ ~aborted)

\* the empty map evaluated piecewise log-linear at a positive x
C13_Witness ==
    /\ op = "evaluate"
    /\ ipl = "piecewise_log_linear"
    /\ mem = <<>>
    /\ arg > 0
    /\ ret.val = make_fp(0)

\* C14: on one or more nodes piecewise-log-linear evaluation at x <= 0
\* returns the first node's value, a number obtained without a logarithm,
\* and the call completes.
C14_LogLinearNonPositive ==
    (op = "evaluate" /\ ipl = "piecewise_log_linear" /\ Len(mem) >= 1
        /\ arg <= 0) =>
        /\ ret.val = make_fp(Deref(mem, 0).second)
        /\ ret.val.den = 1
        /\ ~aborted

\* several nodes with different values, evaluated at a negative x
C14_Witness ==
    /\ op = "evaluate"
    /\ ipl = "piecewise_log_linear"
    /\ Len(mem) >= 2
    /\ Deref(mem, 0).second # Deref(mem, 1).second
    /\ arg < 0
    /\ ret.val = make_fp(Deref(mem, 0).second)

\* C15: a == b is true exactly when a and b hold the same number of nodes
\* and the same node at every position, a != b is its negation, and the
\* comparison reads stored nodes only and completes.
C15_Equality ==
    /\ op = "eq" => (ret.val = (mem = arg) /\ ~ret.oob /\ ~aborted)
    /\ op = "ne" => (ret.val = (mem # arg) /\ ~ret.oob /\ ~aborted)

\* a is lexicographically smaller than b: at the first offset where the two
\* differ a's node is the smaller one, or a is a proper front part of b
LexLess(a, b) ==
    \/ \E i \in 1..Len(a) :
           /\ i <= Len(b)
           /\ SubSeq(a, 1, i - 1) = SubSeq(b, 1, i - 1)
           /\ \/ a[i].first < b[i].first
              \/ (a[i].first = b[i].first /\ a[i].second < b[i].second)
    \/ (Len(a) < Len(b) /\ a = SubSeq(b, 1, Len(a)))

\* C16: a < b is true exactly when a's nodes are lexicographically smaller
\* than b's, a > b exactly when b < a, a <= b is the negation of b < a and
\* a >= b the negation of a < b.
C16_Ordering ==
    /\ op = "lt" => ret.val = LexLess(mem, arg)
    /\ op = "gt" => ret.val = LexLess(arg, mem)
    /\ op = "le" => ret.val = ~LexLess(arg, mem)
    /\ op = "ge" => ret.val = ~LexLess(mem, arg)

\* C17: at(i) returns the node at offset i for i < size and throws
\* out_of_range for i >= size, on the empty map for every i; the map is the
\* same after the call.
C17_CheckedAccess ==
    [][op' = "at" =>
        /\ IF arg' < Len(mem)
           THEN ret'.thrown = "none" /\ ret'.node = Deref(mem, arg')
           ELSE ret'.thrown = "out_of_range"
        /\ mem' = mem]_vars

\* at(size) on a map that holds nodes
C17_Witness ==
    /\ op = "at"
    /\ Len(mem) >= 1
    /\ arg = Len(mem)
    /\ ret.thrown = "out_of_range"

\* the calls that only read the map
ReadOnlyCalls ==
    {"evaluate", "find", "lower_bound", "upper_bound", "equal_range",
     "count", "size", "at"}

\* the read-only call o with argument a returns r on the nodes m with
\* strategy s, whatever a read outside the nodes finds
Returns(o, m, s, a, r) ==
    IF o = "evaluate" THEN r = [val |-> evaluate(s, m, a)]
    ELSE IF o = "find" THEN \A g \in QKeys : r = find(m, a, g)
    ELSE IF o = "lower_bound"
         THEN r = [pos |-> lower_bound(m, 0, Len(m), a)]
    ELSE IF o = "upper_bound"
         THEN r = [pos |-> upper_bound(m, 0, Len(m), a)]
    ELSE IF o = "equal_range"
         THEN r.first = equal_range(m, 0, Len(m), a)[1]
              /\ r.second = equal_range(m, 0, Len(m), a)[2]
    ELSE IF o = "count" THEN r = [n |-> count(m, a)]
    ELSE IF o = "size" THEN r = [n |-> Len(m)]
    ELSE r = at(m, a)

key_comp(c, a, b) == IF c = "less" THEN a < b ELSE a > b

\* C19: a map constructed with the descending comparison keeps its nodes
\* sorted under that comparison, and lower_bound, upper_bound and find
\* position keys by it: lower_bound(k) is the first position whose key does
\* not come before k, upper_bound(k) the first whose key comes after k.
C19_InjectedComparison ==
    comp = "greater" =>
        /\ \A i \in 1..(Len(mem) - 1) :
               ~key_comp(comp, mem[i + 1].first, mem[i].first)
        /\ op = "lower_bound" =>
               ret.pos = Min({i \in 0..(Len(mem) - 1) :
                                 ~key_comp(comp, Deref(mem, i).first, arg)}
                             \cup {Len(mem)})
        /\ op = "upper_bound" =>
               ret.pos = Min({i \in 0..(Len(mem) - 1) :
                                 key_comp(comp, arg, Deref(mem, i).first)}
                             \cup {Len(mem)})
        /\ (op = "find" /\ OffsetsOf(mem, arg) # {}) =>
               ret.pos = Min(OffsetsOf(mem, arg))

\* C20: insert(first, last) and insert(il) of a non-empty input add every
\* input pair and return the position, in the nodes after the call, of the
\* node inserted for the last input element; an empty input changes nothing
\* and returns end.
C20_RangeInsertReturn ==
    [][op' = "insert_range" =>
        IF arg' # <<>>
        THEN /\ Len(mem') = Len(mem) + Len(arg')
             /\ \A p \in Pairs :
                    Occurrences(mem', p)
                        = Occurrences(mem, p) + Occurrences(arg', p)
             /\ ret'.pos < Len(mem')
             /\ Deref(mem', ret'.pos) = arg'[Len(arg')]
             /\ ret'.pos = FirstNotLess(mem', arg'[Len(arg')].first)
        ELSE mem' = mem /\ ret'.pos = Len(mem)]_vars

\* two pairs were inserted into a map that held one, the last of them in
\* front of the others
C20_Witness ==
    /\ op = "insert_range"
    /\ Len(arg) = 2
    /\ Len(mem) = 3
    /\ arg[1].first > arg[2].first
    /\ ret.pos = 0

\* C21: erase(pos) removes exactly the node at pos, erase(first, last)
\* exactly the nodes at first .. last - 1; the other nodes stay in their
\* order, the size shrinks by the length of the span and the nodes remain
\* sorted.
C21_ErasePosAndRange ==
    [][/\ op' = "erase_pos" =>
              /\ mem' = Without(mem, {arg'})
              /\ Len(mem') = Len(mem) - 1
              /\ Sorted(mem')
       /\ op' = "erase_range" =>
              /\ mem' = Without(mem, arg'[1]..(arg'[2] - 1))
              /\ Len(mem') = Len(mem) - (arg'[2] - arg'[1])
              /\ Sorted(mem')]_vars

\* the last two of three nodes were erased
C21_Witness ==
    /\ op = "erase_range"
    /\ arg = <<1, 3>>
    /\ Len(mem) = 1

\* C22: swap(a, b) exchanges the nodes and the strategies of a and b, so
\* that afterwards a evaluates every key as b did before and b as a did;
\* a second swap restores both maps; and no step other than a swap changes
\* the strategy of a map.
C22_Swap ==
    [][/\ op' = "swap" =>
              /\ This' = arg'
              /\ ret'.other = This
              /\ \A x \in XKeys :
                     /\ evaluate(ipl', mem', x)
                            = evaluate(arg'.ipl, arg'.mem, x)
                     /\ evaluate(ret'.other.ipl, ret'.other.mem, x)
                            = evaluate(ipl, mem, x)
       /\ op' = "swap_again" =>
              /\ This' = ret.other
              /\ ret'.other = arg'
       /\ ipl' # ipl => op' \in {"swap", "swap_again"}]_vars

\* two maps with different nodes and different strategies were swapped twice
C22_Witness ==
    /\ op = "swap_again"
    /\ Len(mem) >= 2
    /\ ret.other.mem # mem
    /\ ret.other.ipl # ipl

C24_BracketPositions ==
    (/\ op = "evaluate"
     /\ Len(mem) >= 2
     /\ \/ ipl = "piecewise_linear"
        \/ (ipl = "piecewise_log_linear" /\ arg > 0)) =>
        LET p1 == bracket(mem, arg)
            p0 == p1 - 1
        IN  /\ p1 \in 1..(Len(mem) - 1)
            /\ p0 \in 0..(Len(mem) - 2)
            /\ p1 = UpperBracket(mem, arg)

\* three nodes evaluated piecewise linear above the last key
C24_Witness ==
    /\ op = "evaluate"
    /\ ipl = "piecewise_linear"
    /\ Len(mem) = 3
    /\ arg > Deref(mem, 2).first
    /\ bracket(mem, arg) = 2

\* C25: on every map of two or more nodes that insert and erase produce,
\* and for every x, the bracket of piecewise-linear evaluation has
\* key(p0) < key(p1), and the value returned is finite.
C25_SlopeDivisorNonZero ==
    (op = "evaluate" /\ ipl = "piecewise_linear" /\ Len(mem) >= 2) =>
        LET p1 == bracket(mem, arg)
        IN  /\ Deref(mem, p1 - 1).first < Deref(mem, p1).first
            /\ ret.val.den > 0

\* the values stored in m
ValuesOf(m) == {m[i].second : i \in 1..Len(m)}

\* C26: for a gradient over one or more nodes min() is the smallest and
\* max() the largest stored value, in whatever order the values follow the
\* keys, and operator() returns what the evaluation of the map returns.
C26_GradientMinMax ==
    /\ (op = "gradient_min" /\ Len(mem) >= 1) =>
           ret.val = make_fp(Min(ValuesOf(mem)))
    /\ (op = "gradient_max" /\ Len(mem) >= 1) =>
           ret.val = make_fp(Max(ValuesOf(mem)))
    /\ op = "gradient_call" => ret.val = evaluate(ipl, mem, arg)

====
